---- MODULE Spec2Model ----
(***************************************************************************)
(* Model of the Azure Container App Job action: the orchestrator run()     *)
(* (src/main.js of the action), the lifecycle operations createJob,        *)
(* startJobExecution, pollJobExecution, deleteJob (job.js), dumpJobLogs    *)
(* (utils.js) and getInputs (input.js).                                     *)
(*                                                                         *)
(* One run of the action is one behaviour.  Every await of the code is a   *)
(* step; the remote provider's answers are chosen nondeterministically.    *)
(***************************************************************************)
EXTENDS Integers, Sequences, FiniteSets, TLC

VARIABLES
    inputs,          \* the action's inputs as read by getInputs (fixed for a run)
    pc,              \* position of run()
    client,          \* run(): client (FALSE = null)
    jobName,         \* run(): jobName ("" = null)
    resourceGroup,   \* run(): resourceGroup ("" = null)
    cronSchedule,    \* run(): cronSchedule ("" = null or empty)
    error,           \* the error caught by run()'s catch block: [kind, message]
    trace,           \* history: remote calls, setOutput and setFailed, in order
    failed,          \* core.setFailed has been called
    failureMessage,  \* the message of the last core.setFailed
    now,             \* Date.now(), in ms
    startTime,       \* pollJobExecution: startTime
    timeoutAtRaise,  \* pollJobExecution: elapsed at the moment the timeout was raised (-1: not raised)
    executionName,   \* run(): executionName ("" = not set)
    finalExecution,  \* run(): finalExecution (NoExecution = not returned)
    location,        \* createJob: location
    config,          \* the job configuration run() hands to createJob (lines 77-89)
    jobConfig,       \* createJob: jobConfig, the document built by buildJobConfig
    argument,        \* the argument of a utility function that is called on its own
    returned         \* the value that call returned

vars == <<inputs, pc, client, jobName, resourceGroup, cronSchedule, error, trace,
          failed, failureMessage, now, startTime, timeoutAtRaise, executionName,
          finalExecution, location, config, jobConfig, argument, returned>>

-----------------------------------------------------------------------------
(* Bounds of the model *)

\* largest value of the clock the poll loop is followed to
MaxNow == 40000
\* extra time a sleep may take beyond the poll interval (setTimeout is "at least")
Jitter == 1

\* largest number of entries of the secrets mapping
MaxSecrets == 2
\* longest command string given to parseCommand
MaxCommandLen == 4
\* largest number of base-36 digits of a value of Math.random()
MaxRandomDigits == 7
\* longest timeout input text tried
MaxTimeoutLen == 3

(* Program constants *)

pollInterval == 10000
updateIntervalInMs == 5000
\* exitCode of a record that reports none (undefined)
NoExitCode == -1
replicaTimeout == 1800
replicaRetryLimit == 0

-----------------------------------------------------------------------------
(* Values *)

NoError == [kind |-> "none", message |-> ""]

\* status values a fetched execution may carry; "missing" is undefined
StatusValues == {"Running", "Succeeded", "Failed", "Unknown", "missing"}
\* execution.properties?.status; "missing" also stands for properties undefined
PropertiesStatusValues == {"missing", "Succeeded", "Failed"}
\* execution.properties?.template?.containers?.[0]?.exitCode
ExitCodes == {NoExitCode, 0, 1}

\* what client.jobExecution(...) may resolve to
ExecutionRecords ==
    [status : StatusValues, pstatus : PropertiesStatusValues, exitCode : ExitCodes]

NoExecution == [status |-> "none", pstatus |-> "none", exitCode |-> NoExitCode]

\* outcomes of logsClient.queryWorkspace
LogOutcomes == {"throws", "Success", "SuccessEmpty", "PartialError", "Other"}

\* strings that are processed character by character are sequences of characters
EastUS == <<"E", "a", "s", "t", " ", "U", "S">>
eastus == <<"e", "a", "s", "t", "u", "s">>
westus == <<"w", "e", "s", "t", "u", "s">>

\* what client.managedEnvironments.get may do: throw, or resolve to an environment
\* with this location (<<>> = no location reported)
EnvironmentOutcomes ==
    {[ok |-> FALSE, location |-> <<>>]} \cup
    [ok : {TRUE}, location : {<<>>, EastUS, westus, <<" ">>}]

ProviderMessage == "provider error"
StartedExecutionName == "exec-1"

\* a value that is absent (undefined, null) and a value that is present
Undefined == [defined |-> FALSE]
Defined(value) == [defined |-> TRUE, value |-> value]

\* Date.now() as the template literal of generateJobName renders it
GeneratedTimestamps ==
    {<<"1", "7", "0", "0", "0", "0", "0", "0", "0", "0", "0", "0", "0">>}
\* Math.random() as the base-36 digits of its fraction (toString(36) renders
\* them after "0."; the value 0 has none)
GeneratedRandoms ==
    {<<"k", "3", "x", "9", "a", "b", "7", "m", "2", "d", "q">>,
     <<"0", "z", "8", "1", "q", "p">>}

GhJob == <<"g", "h", "-", "j", "o", "b">>

-----------------------------------------------------------------------------
(* Inputs *)

InputSpace ==
    [ subscriptionId          : {"", "sub"},
      resourceGroup           : {"", "rg"},
      environmentName         : {"", "env"},
      jobName                 : {"", "my-job"},
      image                   : {"", "img"},
      cronSchedule            : {"", "0 2 * * *"},
      timeout                 : {0, 10, 20},
      dryRun                  : BOOLEAN,
      manualExecution         : BOOLEAN,
      onlyDeleteJob           : BOOLEAN,
      logAnalyticsWorkspaceId : {"", " ", "ws"},
      environmentVariables    : {"", "not-json"},
      secrets                 : {"", "not-json"} ]

-----------------------------------------------------------------------------
(* utils.js *)

UpperCase ==
    <<"A", "B", "C", "D", "E", "F", "G", "H", "I", "J", "K", "L", "M",
      "N", "O", "P", "Q", "R", "S", "T", "U", "V", "W", "X", "Y", "Z">>
LowerCase ==
    <<"a", "b", "c", "d", "e", "f", "g", "h", "i", "j", "k", "l", "m",
      "n", "o", "p", "q", "r", "s", "t", "u", "v", "w", "x", "y", "z">>

\* String.prototype.toLowerCase on one character
ToLowerChar(c) ==
    IF \E i \in DOMAIN UpperCase : UpperCase[i] = c
    THEN LowerCase[CHOOSE i \in DOMAIN UpperCase : UpperCase[i] = c]
    ELSE c

IsWhitespace(c) == c \in {" ", "\t", "\n"}

RECURSIVE LowerStripped(_)
\* String(location).toLowerCase().replaceAll(/\s+/g, '')
LowerStripped(str) ==
    IF str = <<>> THEN <<>>
    ELSE IF IsWhitespace(Head(str)) THEN LowerStripped(Tail(str))
    ELSE <<ToLowerChar(Head(str))>> \o LowerStripped(Tail(str))

\* a normalization that lower-cases and keeps the whitespace
normalizeAzureLocationLowerOnly(loc) ==
    IF loc = <<>> THEN eastus ELSE [i \in DOMAIN loc |-> ToLowerChar(loc[i])]

normalizeAzureLocation(loc) ==
    IF loc = <<>> THEN eastus ELSE LowerStripped(loc)

\* Number.prototype.toString(36) of a value in [0, 1) given by its fraction digits
toString36(fraction) ==
    IF fraction = <<>> THEN <<"0">> ELSE <<"0", ".">> \o fraction

\* String.prototype.substring(start, end) for 0 <= start <= end
substring(str, start, end) ==
    SubSeq(str, start + 1, IF end < Len(str) THEN end ELSE Len(str))

\* lines 50-54; timestamp is Date.now(), random is Math.random()
generateJobName(prefix, timestamp, random) ==
    prefix \o <<"-">> \o timestamp \o <<"-">> \o substring(toString36(random), 2, 8)

RECURSIVE Text(_)
\* the string made of these characters
Text(chars) == IF chars = <<>> THEN "" ELSE Head(chars) \o Text(Tail(chars))

RECURSIVE trimStart(_)
\* String.prototype.trimStart
trimStart(str) ==
    IF str # <<>> /\ IsWhitespace(Head(str)) THEN trimStart(Tail(str)) ELSE str

RECURSIVE trimEnd(_)
trimEnd(str) ==
    IF str # <<>> /\ IsWhitespace(str[Len(str)])
    THEN trimEnd(SubSeq(str, 1, Len(str) - 1))
    ELSE str

\* a trim that leaves the whitespace at the end
trimLeadingOnly(str) == trimStart(str)

\* String.prototype.trim
trim(str) == trimEnd(trimStart(str))

RECURSIVE TakeWord(_)
\* the characters of str before its first whitespace character
TakeWord(str) ==
    IF str = <<>> \/ IsWhitespace(Head(str)) THEN <<>>
    ELSE <<Head(str)>> \o TakeWord(Tail(str))

RECURSIVE SplitWhitespace(_)
\* String.prototype.split(/\s+/): the pieces between the runs of whitespace; a
\* run at either end leaves an empty piece there, and "" splits into [""]
SplitWhitespace(str) ==
    LET word == TakeWord(str)
        rest == SubSeq(str, Len(word) + 1, Len(str))
    IN  IF rest = <<>> THEN <<word>>
        ELSE <<word>> \o SplitWhitespace(trimStart(rest))

\* lines 61-68; the argument is Undefined for null
parseCommand(commandString) ==
    IF ~commandString.defined \/ commandString.value = <<>>
       \/ trim(commandString.value) = <<>>
    THEN Undefined
    ELSE Defined(SplitWhitespace(trim(commandString.value)))

\* the workspaceId test of dumpJobLogs: !workspaceId || workspaceId.trim() === ''
WorkspaceIdBlank(workspaceId) == workspaceId \in {"", " "}

\* a dumpJobLogs without its try/catch
dumpJobLogsRethrows(outcome) == outcome = "throws"

\* whether dumpJobLogs lets the outcome of the query escape as an error
dumpJobLogsThrows(outcome) == FALSE

-----------------------------------------------------------------------------
(* input.js *)

InputError(name) ==
    [kind |-> "input", message |-> "Input required and not supplied: " \o name]

ParseError(name) ==
    [kind |-> "input", message |-> "Failed to parse " \o name \o ": Unexpected token"]

\* parseJsonInput: blank text gives {}, other text goes through JSON.parse
parseJsonInputThrows(text) == text \notin {"", " "} /\ text = "not-json"

\* the error getInputs raises for these inputs, NoError when it returns
getInputsError(in) ==
    IF in.subscriptionId = "" THEN InputError("subscription-id")
    ELSE IF in.resourceGroup = "" THEN InputError("resource-group")
    ELSE IF in.environmentName = "" THEN InputError("environment-name")
    ELSE IF parseJsonInputThrows(in.environmentVariables)
         THEN ParseError("environment-variables")
    ELSE IF parseJsonInputThrows(in.secrets) THEN ParseError("secrets")
    ELSE NoError

-----------------------------------------------------------------------------
(* config.js: buildJobConfig *)

\* a mapping (environmentVariables, secrets) is the sequence of its entries in
\* the order of Object.entries, each [key |-> characters, value |-> string]
Entry(key, value) == [key |-> key, value |-> value]

\* the empty record, for a member that is left out of an object
NoFields == [x \in {} |-> TRUE]

\* line 41: key.toLowerCase().replaceAll('_', '-')
RECURSIVE SecretName(_)
SecretName(key) ==
    IF key = <<>> THEN <<>>
    ELSE <<IF Head(key) = "_" THEN "-" ELSE ToLowerChar(Head(key))>>
         \o SecretName(Tail(key))

registryPasswordName ==
    <<"r", "e", "g", "i", "s", "t", "r", "y", "-", "p", "a", "s", "s", "w", "o", "r", "d">>

\* lines 30-36: one {name, value} entry per environment variable
RECURSIVE EnvVarEntries(_)
EnvVarEntries(environmentVariables) ==
    IF environmentVariables = <<>> THEN <<>>
    ELSE <<[name |-> Head(environmentVariables).key,
            value |-> Head(environmentVariables).value]>>
         \o EnvVarEntries(Tail(environmentVariables))

RECURSIVE SecretsArrayKeepsEmpty(_, _)
\* a secrets array that does not skip the entries with a falsy value
SecretsArrayKeepsEmpty(secrets, userManagedIdentity) ==
    IF secrets = <<>> THEN <<>>
    ELSE <<[name |-> SecretName(Head(secrets).key),
            keyVaultUrl |-> Head(secrets).value,
            identity |-> userManagedIdentity]>>
         \o SecretsArrayKeepsEmpty(Tail(secrets), userManagedIdentity)

\* lines 39-56: the secrets array, entries with a falsy value skipped
RECURSIVE SecretsArray(_, _)
SecretsArray(secrets, userManagedIdentity) ==
    IF secrets = <<>> THEN <<>>
    ELSE (IF Head(secrets).value # ""
          THEN <<[name |-> SecretName(Head(secrets).key),
                  keyVaultUrl |-> Head(secrets).value,
                  identity |-> userManagedIdentity]>>
          ELSE <<>>)
         \o SecretsArray(Tail(secrets), userManagedIdentity)

\* lines 50-54: the secretRef entries appended to the env list
RECURSIVE SecretRefEntries(_)
SecretRefEntries(secrets) ==
    IF secrets = <<>> THEN <<>>
    ELSE (IF Head(secrets).value # ""
          THEN <<[name |-> Head(secrets).key,
                  secretRef |-> SecretName(Head(secrets).key)]>>
          ELSE <<>>)
         \o SecretRefEntries(Tail(secrets))

Digits == <<"0", "1", "2", "3", "4", "5", "6", "7", "8", "9">>

IsDigit(c) == \E i \in DOMAIN Digits : Digits[i] = c

DigitValue(c) == (CHOOSE i \in DOMAIN Digits : Digits[i] = c) - 1

\* the value of a number that is not one (NaN)
NaN == -1

RECURSIVE DigitsValue(_, _)
\* the value of the leading decimal digits of str, after the digits read so far
DigitsValue(str, acc) ==
    IF str = <<>> \/ ~IsDigit(Head(str)) THEN acc
    ELSE DigitsValue(Tail(str), acc * 10 + DigitValue(Head(str)))

RECURSIVE DropDigits(_)
DropDigits(str) ==
    IF str = <<>> \/ ~IsDigit(Head(str)) THEN str ELSE DropDigits(Tail(str))

\* the first three fraction digits of str as thousandths
Thousandths(str) ==
    LET d(i) == IF Len(str) >= i /\ (\A j \in 1..i : IsDigit(str[j]))
                THEN DigitValue(str[i]) ELSE 0
    IN  100 * d(1) + 10 * d(2) + d(3)

\* line 63: Number.parseFloat(cpu) for an unsigned decimal without exponent, in
\* thousandths; NaN when the text does not start with a number
parseFloat(str) ==
    LET rest == DropDigits(str)
        hasInt == str # <<>> /\ IsDigit(Head(str))
        hasFrac == Len(rest) >= 2 /\ rest[1] = "." /\ IsDigit(rest[2])
    IN  IF ~hasInt /\ ~hasFrac THEN NaN
        ELSE 1000 * DigitsValue(str, 0)
             + (IF Len(rest) >= 1 /\ rest[1] = "." THEN Thousandths(Tail(rest)) ELSE 0)

\* the value of Number.parseInt: not a number, or an integer
NotANumber == [nan |-> TRUE, value |-> 0]
Integer(n) == [nan |-> FALSE, value |-> n]

\* Number.parseInt(str, 10): leading whitespace is skipped, one sign is read,
\* then the longest run of decimal digits; not a number when there is no digit
parseInt(str) ==
    LET s == trimStart(str)
        signed == s # <<>> /\ Head(s) \in {"-", "+"}
        negative == s # <<>> /\ Head(s) = "-"
        digits == IF signed THEN Tail(s) ELSE s
    IN  IF digits = <<>> \/ ~IsDigit(Head(digits)) THEN NotANumber
        ELSE Integer((IF negative THEN -1 ELSE 1) * DigitsValue(digits, 0))

\* input.js lines 10-30: getInput(name) for an input that is not required, the
\* INPUT_ variable of the environment being raw (absent: Undefined); the
\* trimmed value when that is not empty, else the variable itself, else ''
getInput(raw) ==
    IF ~raw.defined THEN <<>>
    ELSE IF trim(raw.value) # <<>> THEN trim(raw.value) ELSE raw.value

DefaultTimeout == <<"1", "8", "0", "0">>

\* input.js line 66: Number.parseInt(getInput('timeout') || '1800', 10)
getInputsTimeout(raw) ==
    parseInt(IF getInput(raw) = <<>> THEN DefaultTimeout ELSE getInput(raw))

\* a registry test that looks at the password only
HasRegistryPasswordOnly(cfg) == cfg.registryPassword # ""

\* line 75
HasRegistry(cfg) ==
    cfg.registryServer # "" /\ cfg.registryUsername # "" /\ cfg.registryPassword # ""

\* a trigger configuration that is the manual one whatever the schedule
TriggerConfigManual(cron) ==
    [manualTriggerConfig |-> [replicaCompletionCount |-> 1, parallelism |-> 1]]

\* lines 89-106
TriggerConfig(cron) ==
    IF cron # ""
    THEN [scheduleTriggerConfig |->
            [cronExpression |-> cron, parallelism |-> 1,
             replicaCompletionCount |-> 1]]
    ELSE [manualTriggerConfig |-> [replicaCompletionCount |-> 1, parallelism |-> 1]]

\* lines 58-71
Container(cfg) ==
    [name |-> "main",
     image |-> cfg.image,
     resources |-> [cpu |-> parseFloat(cfg.cpu), memory |-> cfg.memory],
     env |-> EnvVarEntries(cfg.environmentVariables) \o SecretRefEntries(cfg.secrets)]
    @@ (IF cfg.command.defined THEN [command |-> cfg.command.value] ELSE NoFields)

buildJobConfig(subscriptionId, rg, environmentName, loc, cfg) ==
    [configuration |->
        [triggerType |-> IF cfg.cronSchedule # "" THEN "Schedule" ELSE "Manual",
         replicaTimeout |-> replicaTimeout,
         replicaRetryLimit |-> replicaRetryLimit,
         secrets |-> SecretsArray(cfg.secrets, cfg.userManagedIdentity)
                     \o (IF HasRegistry(cfg)
                         THEN <<[name |-> registryPasswordName,
                                 value |-> cfg.registryPassword]>>
                         ELSE <<>>),
         registries |-> IF HasRegistry(cfg)
                        THEN <<[server |-> cfg.registryServer,
                                username |-> cfg.registryUsername,
                                passwordSecretRef |-> registryPasswordName]>>
                        ELSE <<>>]
        @@ TriggerConfig(cfg.cronSchedule),
     environmentId |-> "/subscriptions/" \o subscriptionId \o "/resourceGroups/" \o rg
                       \o "/providers/Microsoft.App/managedEnvironments/"
                       \o environmentName,
     location |-> loc,
     workLoadProfileName |-> "Consumption",
     template |-> [containers |-> <<Container(cfg)>>]]
    @@ (IF cfg.userManagedIdentity # ""
        THEN [identity |-> [type |-> "UserAssigned",
                            userAssignedIdentities |-> {cfg.userManagedIdentity}]]
        ELSE NoFields)

\* no document built yet
NoDocument == <<>>

\* run lines 77-89: the configuration handed to createJob, from the inputs
\* (a blank JSON input parses to the empty mapping; cpu and memory defaults of
\* getInputs lines 64-65)
RunConfig(in) ==
    [image |-> in.image,
     command |-> Undefined,
     userManagedIdentity |-> "",
     environmentVariables |-> <<>>,
     secrets |-> <<>>,
     cpu |-> <<"0", ".", "5">>,
     memory |-> "1Gi",
     registryServer |-> "",
     registryUsername |-> "",
     registryPassword |-> "",
     cronSchedule |-> in.cronSchedule]

-----------------------------------------------------------------------------
(* input.js: parseJsonInput, with JSON.parse for texts without escapes, signs,
   fractions and exponents *)

JsonNull == [type |-> "null"]
JsonBoolean(b) == [type |-> "boolean", value |-> b]
JsonNumber(digits) == [type |-> "number", digits |-> digits]
JsonString(chars) == [type |-> "string", chars |-> chars]
JsonArray(items) == [type |-> "array", items |-> items]
\* entries: the members in the order of Object.entries
JsonObject(entries) == [type |-> "object", entries |-> entries]

ParseFailure == [ok |-> FALSE]
Parsed(value, rest) == [ok |-> TRUE, value |-> value, rest |-> rest]

StartsWith(str, prefix) ==
    Len(str) >= Len(prefix) /\ SubSeq(str, 1, Len(prefix)) = prefix

Drop(str, n) == SubSeq(str, n + 1, Len(str))

\* obj[key] = value: a key that is present keeps its place
Put(entries, key, value) ==
    IF \E i \in DOMAIN entries : entries[i].key = key
    THEN [i \in DOMAIN entries |->
            IF entries[i].key = key THEN Entry(key, value) ELSE entries[i]]
    ELSE Append(entries, Entry(key, value))

\* a string literal, str being the text after its opening quote
ParseString(str) ==
    IF \E k \in DOMAIN str : str[k] = "\""
    THEN LET k == CHOOSE i \in DOMAIN str :
                     str[i] = "\"" /\ \A j \in 1..(i - 1) : str[j] # "\""
         IN  IF \E j \in 1..(k - 1) : str[j] \in {"\t", "\n"}
             THEN ParseFailure
             ELSE Parsed(SubSeq(str, 1, k - 1), Drop(str, k))
    ELSE ParseFailure

\* a number literal: 0, or digits that do not start with 0
ParseNumber(str) ==
    IF Head(str) = "0" THEN Parsed(JsonNumber(<<"0">>), Tail(str))
    ELSE LET rest == DropDigits(str)
         IN  Parsed(JsonNumber(SubSeq(str, 1, Len(str) - Len(rest))), rest)

RECURSIVE ParseValue(_)
RECURSIVE ParseMembers(_, _)
RECURSIVE ParseItems(_, _)

\* the members of an object, str being the text after "{" or after a ","
ParseMembers(str, entries) ==
    LET s == trimStart(str)
    IN  IF s = <<>> \/ Head(s) # "\"" THEN ParseFailure
        ELSE LET key == ParseString(Tail(s))
             IN  IF ~key.ok THEN ParseFailure
                 ELSE LET t == trimStart(key.rest)
                      IN  IF t = <<>> \/ Head(t) # ":" THEN ParseFailure
                          ELSE LET v == ParseValue(Tail(t))
                               IN  IF ~v.ok THEN ParseFailure
                                   ELSE LET u == trimStart(v.rest)
                                            now1 == Put(entries, key.value, v.value)
                                        IN  IF u = <<>> THEN ParseFailure
                                            ELSE IF Head(u) = ","
                                                 THEN ParseMembers(Tail(u), now1)
                                            ELSE IF Head(u) = "}"
                                                 THEN Parsed(JsonObject(now1), Tail(u))
                                            ELSE ParseFailure

\* the items of an array, str being the text after "[" or after a ","
ParseItems(str, items) ==
    LET v == ParseValue(str)
    IN  IF ~v.ok THEN ParseFailure
        ELSE LET u == trimStart(v.rest)
                 now1 == Append(items, v.value)
             IN  IF u = <<>> THEN ParseFailure
                 ELSE IF Head(u) = "," THEN ParseItems(Tail(u), now1)
                 ELSE IF Head(u) = "]" THEN Parsed(JsonArray(now1), Tail(u))
                 ELSE ParseFailure

ParseValue(str) ==
    LET s == trimStart(str)
    IN  IF s = <<>> THEN ParseFailure
        ELSE IF Head(s) = "\"" THEN
            LET r == ParseString(Tail(s))
            IN  IF r.ok THEN Parsed(JsonString(r.value), r.rest) ELSE ParseFailure
        ELSE IF Head(s) = "{" THEN
            LET t == trimStart(Tail(s))
            IN  IF t # <<>> /\ Head(t) = "}" THEN Parsed(JsonObject(<<>>), Tail(t))
                ELSE ParseMembers(t, <<>>)
        ELSE IF Head(s) = "[" THEN
            LET t == trimStart(Tail(s))
            IN  IF t # <<>> /\ Head(t) = "]" THEN Parsed(JsonArray(<<>>), Tail(t))
                ELSE ParseItems(t, <<>>)
        ELSE IF IsDigit(Head(s)) THEN ParseNumber(s)
        ELSE IF StartsWith(s, <<"n", "u", "l", "l">>) THEN Parsed(JsonNull, Drop(s, 4))
        ELSE IF StartsWith(s, <<"t", "r", "u", "e">>)
             THEN Parsed(JsonBoolean(TRUE), Drop(s, 4))
        ELSE IF StartsWith(s, <<"f", "a", "l", "s", "e">>)
             THEN Parsed(JsonBoolean(FALSE), Drop(s, 5))
        ELSE ParseFailure

\* JSON.parse: the value of the text, or a failure (SyntaxError)
JSONparse(text) ==
    LET r == ParseValue(text)
    IN  IF r.ok /\ trimStart(r.rest) = <<>> THEN Parsed(r.value, <<>>) ELSE ParseFailure

\* a blank test without the trim
IsEmptyInput(input) == ~input.defined \/ input.value = <<>>

\* line 40: !input || input.trim() === ''
IsBlankInput(input) ==
    ~input.defined \/ input.value = <<>> \/ trim(input.value) = <<>>

\* lines 37-49, input being what getInput(inputName) returned: the value
\* returned, or a failure when the error is thrown
parseJsonInput(input) ==
    IF IsBlankInput(input) THEN Parsed(JsonObject(<<>>), <<>>)
    ELSE JSONparse(input.value)

-----------------------------------------------------------------------------
(* job.js *)

\* an entry of the history: the operation, the job name (or the value of an output,
\* the message of a failure) it was given, whether it succeeded, and for a status
\* fetch the execution name, for a log query its outcome
Call(op, arg, ok) == [op |-> op, arg |-> arg, ok |-> ok, detail |-> ""]

\* client.jobExecution(resourceGroup, jobName, executionName)
FetchCall(job, execution, ok) ==
    [op |-> "jobExecution", arg |-> job, ok |-> ok, detail |-> execution]

\* logsClient.queryWorkspace(workspaceId, query with jobName, ...)
QueryCall(job, outcome) ==
    [op |-> "queryWorkspace", arg |-> job, ok |-> outcome # "throws", detail |-> outcome]

\* client.managedEnvironments.get(resourceGroup, environmentName), with the
\* location the environment reported
EnvironmentCall(environmentName, env) ==
    [op |-> "environmentGet", arg |-> environmentName, ok |-> env.ok,
     detail |-> Text(env.location)]

\* pollJobExecution line 335: the status the loop looks at
pollStatus(execution) == execution.status

\* a poll loop that stops on any status other than Running
pollIsTerminalNotRunning(status) == status # "Running"

\* pollJobExecution line 338
pollIsTerminal(status) == status = "Succeeded" \/ status = "Failed"

\* pollJobExecution line 328
pollTimedOut(elapsed, timeout) == elapsed > timeout * 1000

\* a timeout error that does not say which timeout was exceeded
TimeoutErrorGeneric(timeout) ==
    [kind |-> "timeout", message |-> "Job execution timed out"]

TimeoutError(timeout) ==
    [kind |-> "timeout",
     message |-> "Job execution timed out after " \o ToString(timeout) \o " seconds"]

\* a deleteJob without its try/catch
deleteJobRethrows(ok) == ~ok

\* deleteJob catches the error of the remote delete: it propagates nothing
deleteJobThrows(ok) == FALSE

DeleteError == [kind |-> "delete", message |-> ProviderMessage]

-----------------------------------------------------------------------------
(* main.js: run() *)

\* line 115
runStatus(execution) == execution.pstatus

\* line 116: ... ?.exitCode || 0
runExitCode(execution) ==
    IF execution.exitCode = NoExitCode THEN 0 ELSE execution.exitCode

\* a verdict that fails whatever is not reported as Succeeded
runFailsUnlessSucceeded(execution) ==
    runStatus(execution) # "Succeeded" \/ runExitCode(execution) # 0

\* line 129
runFails(execution) ==
    runStatus(execution) = "Failed" \/ runExitCode(execution) # 0

\* a cleanup guard that also spares manual-execution jobs
cleanupWantedUnlessManual ==
    client /\ resourceGroup # "" /\ jobName # "" /\ cronSchedule = ""
    /\ ~inputs.manualExecution

\* a cleanup guard that forgets the cron schedule
cleanupWantedAlways == client /\ resourceGroup # "" /\ jobName # ""

\* a cleanup guard that looks at the cron schedule only
cleanupWantedCronOnly == cronSchedule = ""

\* line 138
cleanupWanted == client /\ resourceGroup # "" /\ jobName # "" /\ cronSchedule = ""

SetFailed(message) ==
    /\ failed' = TRUE
    /\ failureMessage' = message

Init ==
    /\ inputs \in InputSpace
    /\ pc = "getInputs"
    /\ client = FALSE
    /\ jobName = ""
    /\ resourceGroup = ""
    /\ cronSchedule = ""
    /\ error = NoError
    /\ trace = <<>>
    /\ failed = FALSE
    /\ failureMessage = ""
    /\ now = 0
    /\ startTime = 0
    /\ timeoutAtRaise = -1
    /\ executionName = ""
    /\ finalExecution = NoExecution
    /\ location = <<>>
    /\ config = RunConfig(inputs)
    /\ jobConfig = NoDocument
    /\ argument = Undefined
    /\ returned = Undefined

\* lines 17-44: getInputs and the resolution of the job name
GetInputs ==
    /\ pc = "getInputs"
    /\ IF getInputsError(inputs) # NoError
       THEN /\ error' = getInputsError(inputs)
            /\ pc' = "catch"
            /\ UNCHANGED <<jobName, resourceGroup, cronSchedule>>
       ELSE /\ resourceGroup' = inputs.resourceGroup
            /\ \E ts \in GeneratedTimestamps, rnd \in GeneratedRandoms :
                   jobName' = IF inputs.jobName # "" THEN inputs.jobName
                              ELSE Text(generateJobName(GhJob, ts, rnd))
            /\ cronSchedule' = inputs.cronSchedule
            /\ pc' = "authenticate"
            /\ UNCHANGED error
    /\ UNCHANGED <<argument, returned, config, jobConfig, inputs, client, trace, failed, failureMessage, now, startTime,
                   timeoutAtRaise, executionName, finalExecution, location>>

\* a mode selection in which dry-run comes before delete-only
AuthenticateDryRunFirst ==
    /\ pc = "authenticate"
    /\ client' = TRUE
    /\ pc' = IF inputs.onlyDeleteJob /\ ~inputs.dryRun THEN "deleteOnly" ELSE "createJob"
    /\ UNCHANGED <<argument, returned, config, jobConfig, inputs, jobName, resourceGroup,
                   cronSchedule, error, trace, failed, failureMessage, now, startTime,
                   timeoutAtRaise, executionName, finalExecution, location>>

\* lines 66-74: client construction and the delete-only branch
Authenticate ==
    /\ pc = "authenticate"
    /\ client' = TRUE
    /\ pc' = IF inputs.onlyDeleteJob THEN "deleteOnly" ELSE "createJob"
    /\ UNCHANGED <<argument, returned, config, jobConfig, inputs, jobName, resourceGroup, cronSchedule, error, trace, failed,
                   failureMessage, now, startTime, timeoutAtRaise, executionName,
                   finalExecution, location>>

\* lines 71-74: await deleteJob(...); return
DeleteOnly ==
    /\ pc = "deleteOnly"
    /\ \E ok \in BOOLEAN :
          /\ trace' = Append(trace, Call("delete", jobName, ok))
          /\ IF deleteJobThrows(ok)
             THEN pc' = "catch" /\ error' = DeleteError
             ELSE pc' = "done" /\ UNCHANGED error
    /\ UNCHANGED <<argument, returned, config, jobConfig, inputs, client, jobName, resourceGroup, cronSchedule, failed,
                   failureMessage, now, startTime, timeoutAtRaise, executionName,
                   finalExecution, location>>

\* createJob lines 252-261: read the managed environment for its location
CreateJobGetEnvironment ==
    /\ pc = "createJob"
    /\ \E env \in EnvironmentOutcomes :
          /\ trace' = Append(trace, EnvironmentCall(inputs.environmentName, env))
          /\ location' = IF ~env.ok THEN eastus
                         ELSE IF normalizeAzureLocation(env.location) = <<>> THEN eastus
                         ELSE normalizeAzureLocation(env.location)
    /\ pc' = "createSubmit"
    /\ UNCHANGED <<argument, returned, config, jobConfig, inputs, client, jobName, resourceGroup, cronSchedule, error, failed,
                   failureMessage, now, startTime, timeoutAtRaise, executionName,
                   finalExecution>>

\* a createJob that logs the rejection of the document and returns
CreateJobSubmitSwallows ==
    /\ pc = "createSubmit"
    /\ jobConfig' = buildJobConfig(inputs.subscriptionId, resourceGroup,
                                   inputs.environmentName, location, config)
    /\ \E ok \in BOOLEAN : trace' = Append(trace, Call("createOrUpdate", jobName, ok))
    /\ pc' = "afterCreate"
    /\ UNCHANGED <<argument, returned, config, inputs, client, jobName, resourceGroup, cronSchedule, error,
                   failed, failureMessage, now, startTime, timeoutAtRaise, executionName,
                   finalExecution, location>>

\* createJob lines 263-280: submit the document
CreateJobSubmit ==
    /\ pc = "createSubmit"
    /\ jobConfig' = buildJobConfig(inputs.subscriptionId, resourceGroup,
                                   inputs.environmentName, location, config)
    /\ \E ok \in BOOLEAN :
          /\ trace' = Append(trace, Call("createOrUpdate", jobName, ok))
          /\ IF ok
             THEN pc' = "afterCreate" /\ UNCHANGED error
             ELSE /\ pc' = "catch"
                  /\ error' = [kind |-> "create",
                                message |-> "Failed to create job: " \o ProviderMessage]
    /\ UNCHANGED <<argument, returned, config, inputs, client, jobName, resourceGroup, cronSchedule, failed,
                   failureMessage, now, startTime, timeoutAtRaise, executionName,
                   finalExecution, location>>

\* the modes that stop after creation, with the manual-execution test left out
AfterCreateCronOnly ==
    /\ pc = "afterCreate"
    /\ trace' = Append(trace, Call("setOutput:job-name", jobName, TRUE))
    /\ pc' = IF cronSchedule # "" THEN "done"
             ELSE IF inputs.dryRun THEN "done"
             ELSE "startJobExecution"
    /\ UNCHANGED <<argument, returned, config, jobConfig, inputs, client, jobName, resourceGroup, cronSchedule, error, failed,
                   failureMessage, now, startTime, timeoutAtRaise, executionName,
                   finalExecution, location>>

\* run lines 91-102: the job-name output and the modes that stop after creation
AfterCreate ==
    /\ pc = "afterCreate"
    /\ trace' = Append(trace, Call("setOutput:job-name", jobName, TRUE))
    /\ pc' = IF cronSchedule # "" \/ inputs.manualExecution THEN "done"
             ELSE IF inputs.dryRun THEN "done"
             ELSE "startJobExecution"
    /\ UNCHANGED <<argument, returned, config, jobConfig, inputs, client, jobName, resourceGroup, cronSchedule, error, failed,
                   failureMessage, now, startTime, timeoutAtRaise, executionName,
                   finalExecution, location>>

\* a start that is tried again when the provider rejects it
StartJobExecutionRetries ==
    /\ pc = "startJobExecution"
    /\ \E ok \in BOOLEAN :
          /\ trace' = Append(trace, Call("start", jobName, ok))
          /\ IF ok
             THEN /\ executionName' = StartedExecutionName
                  /\ startTime' = now
                  /\ pc' = "pollCheck"
             ELSE UNCHANGED <<executionName, startTime, pc>>
    /\ UNCHANGED <<argument, returned, config, jobConfig, inputs, client, jobName,
                   resourceGroup, cronSchedule, error, failed, failureMessage, now,
                   timeoutAtRaise, finalExecution, location>>

\* startJobExecution, run lines 105-109, and the entry of pollJobExecution (319-323)
StartJobExecution ==
    /\ pc = "startJobExecution"
    /\ \E ok \in BOOLEAN, d \in {0, updateIntervalInMs} :
          /\ now' = now + d
          /\ IF ok
             THEN /\ executionName' = StartedExecutionName
                  /\ trace' = trace \o <<Call("start", jobName, TRUE),
                                Call("setOutput:execution-name", StartedExecutionName, TRUE)>>
                  /\ startTime' = now'
                  /\ pc' = "pollCheck"
                  /\ UNCHANGED error
             ELSE /\ trace' = Append(trace, Call("start", jobName, FALSE))
                  /\ error' = [kind |-> "start",
                       message |-> "Failed to start job execution: " \o ProviderMessage]
                  /\ pc' = "catch"
                  /\ UNCHANGED <<executionName, startTime>>
    /\ UNCHANGED <<argument, returned, config, jobConfig, inputs, client, jobName, resourceGroup, cronSchedule, failed,
                   failureMessage, timeoutAtRaise, finalExecution, location>>

\* pollJobExecution lines 325-330: the top of an iteration
PollCheck ==
    /\ pc = "pollCheck"
    \* line 326 reads the clock again: it may have moved on since the last read
    /\ \E d \in {0, Jitter} :
          /\ now + d <= MaxNow
          /\ now' = now + d
    /\ IF pollTimedOut(now' - startTime, inputs.timeout)
       THEN /\ error' = TimeoutError(inputs.timeout)
            /\ timeoutAtRaise' = now' - startTime
            /\ pc' = "catch"
       ELSE /\ pc' = "pollFetch"
            /\ UNCHANGED <<error, timeoutAtRaise>>
    /\ UNCHANGED <<argument, returned, config, jobConfig, inputs, client, jobName, resourceGroup, cronSchedule, trace, failed,
                   failureMessage, startTime, executionName, finalExecution,
                   location>>

\* one status fetch without the try/catch around it
PollFetchAborts ==
    /\ pc = "pollFetch"
    /\ \/ /\ trace' = Append(trace, FetchCall(jobName, executionName, FALSE))
          /\ pc' = "catch"
          /\ error' = [kind |-> "fetch", message |-> ProviderMessage]
          /\ UNCHANGED finalExecution
       \/ \E execution \in ExecutionRecords :
             /\ trace' = Append(trace, FetchCall(jobName, executionName, TRUE))
             /\ UNCHANGED error
             /\ IF pollIsTerminal(pollStatus(execution))
                THEN finalExecution' = execution /\ pc' = "dumpJobLogs"
                ELSE pc' = "pollSleep" /\ UNCHANGED finalExecution
    /\ UNCHANGED <<argument, returned, config, jobConfig, inputs, client, jobName, resourceGroup, cronSchedule, failed,
                   failureMessage, now, startTime, timeoutAtRaise, executionName,
                   location>>

\* pollJobExecution lines 332-343: one status fetch
PollFetch ==
    /\ pc = "pollFetch"
    /\ \/ /\ trace' = Append(trace, FetchCall(jobName, executionName, FALSE))
          /\ pc' = "pollSleep"
          /\ UNCHANGED finalExecution
       \/ \E execution \in ExecutionRecords :
             /\ trace' = Append(trace, FetchCall(jobName, executionName, TRUE))
             /\ IF pollIsTerminal(pollStatus(execution))
                THEN finalExecution' = execution /\ pc' = "dumpJobLogs"
                ELSE pc' = "pollSleep" /\ UNCHANGED finalExecution
    /\ UNCHANGED <<argument, returned, config, jobConfig, inputs, client, jobName, resourceGroup, cronSchedule, error, failed,
                   failureMessage, now, startTime, timeoutAtRaise, executionName,
                   location>>

\* a sleep whose promise is never resolved: the loop does not wake up again
PollSleepNeverResolves ==
    /\ pc = "pollSleep"
    /\ FALSE
    /\ UNCHANGED vars

\* a loop that tests the timeout before the first fetch only
PollSleepSkipsCheck ==
    /\ pc = "pollSleep"
    /\ \E d \in {0, Jitter} :
          /\ now + pollInterval + d <= MaxNow
          /\ now' = now + pollInterval + d
    /\ pc' = "pollFetch"
    /\ UNCHANGED <<argument, returned, config, jobConfig, inputs, client, jobName, resourceGroup, cronSchedule, error, trace,
                   failed, failureMessage, startTime, timeoutAtRaise, executionName,
                   finalExecution, location>>

\* pollJobExecution line 345: await sleep(pollInterval)
PollSleep ==
    /\ pc = "pollSleep"
    /\ \E d \in {0, Jitter} :
          /\ now + pollInterval + d <= MaxNow
          /\ now' = now + pollInterval + d
    /\ pc' = "pollCheck"
    /\ UNCHANGED <<argument, returned, config, jobConfig, inputs, client, jobName, resourceGroup, cronSchedule, error, trace,
                   failed, failureMessage, startTime, timeoutAtRaise, executionName,
                   finalExecution, location>>

\* run lines 114-123: await dumpJobLogs(logAnalyticsWorkspaceId, jobName)
DumpJobLogs ==
    /\ pc = "dumpJobLogs"
    /\ IF WorkspaceIdBlank(inputs.logAnalyticsWorkspaceId)
       THEN pc' = "deleteJob" /\ UNCHANGED <<trace, error>>
       ELSE \E outcome \in LogOutcomes :
               /\ trace' = Append(trace, QueryCall(jobName, outcome))
               /\ IF dumpJobLogsThrows(outcome)
                  THEN pc' = "catch" /\ error' = [kind |-> "logs", message |-> ProviderMessage]
                  ELSE pc' = "deleteJob" /\ UNCHANGED error
    /\ UNCHANGED <<argument, returned, config, jobConfig, inputs, client, jobName, resourceGroup, cronSchedule, failed,
                   failureMessage, now, startTime, timeoutAtRaise, executionName,
                   finalExecution, location>>

\* a happy-path delete that is skipped when the execution failed
DeleteJobOnSuccessOnly ==
    /\ pc = "deleteJob"
    /\ IF runFails(finalExecution)
       THEN UNCHANGED trace
       ELSE \E ok \in BOOLEAN : trace' = Append(trace, Call("delete", jobName, ok))
    /\ pc' = "verdict"
    /\ UNCHANGED <<argument, returned, config, jobConfig, inputs, client, jobName, resourceGroup, cronSchedule, error, failed,
                   failureMessage, now, startTime, timeoutAtRaise, executionName,
                   finalExecution, location>>

\* a happy-path delete that is given the job-name input instead of the resolved name
DeleteJobByInputName ==
    /\ pc = "deleteJob"
    /\ \E ok \in BOOLEAN : trace' = Append(trace, Call("delete", inputs.jobName, ok))
    /\ pc' = "verdict"
    /\ UNCHANGED <<argument, returned, config, jobConfig, inputs, client, jobName, resourceGroup,
                   cronSchedule, error, failed, failureMessage, now, startTime,
                   timeoutAtRaise, executionName, finalExecution, location>>

\* run lines 125-126: await deleteJob(client, resourceGroup, jobName)
DeleteJob ==
    /\ pc = "deleteJob"
    /\ \E ok \in BOOLEAN :
          /\ trace' = Append(trace, Call("delete", jobName, ok))
          /\ IF deleteJobThrows(ok)
             THEN pc' = "catch" /\ error' = DeleteError
             ELSE pc' = "verdict" /\ UNCHANGED error
    /\ UNCHANGED <<argument, returned, config, jobConfig, inputs, client, jobName, resourceGroup, cronSchedule, failed,
                   failureMessage, now, startTime, timeoutAtRaise, executionName,
                   finalExecution, location>>

\* run lines 128-131: fail if the job failed
Verdict ==
    /\ pc = "verdict"
    /\ IF runFails(finalExecution)
       THEN /\ SetFailed("Job execution failed with exit code: "
                          \o ToString(runExitCode(finalExecution)))
            /\ trace' = Append(trace, Call("setFailed", failureMessage', TRUE))
       ELSE UNCHANGED <<failed, failureMessage, trace>>
    /\ pc' = "done"
    /\ UNCHANGED <<argument, returned, config, jobConfig, inputs, client, jobName, resourceGroup, cronSchedule, error, now,
                   startTime, timeoutAtRaise, executionName, finalExecution, location>>

\* run lines 133-147, no cleanup: straight to core.setFailed(error.message)
CatchNoCleanup ==
    /\ pc = "catch"
    /\ ~cleanupWanted
    /\ SetFailed(error.message)
    /\ trace' = Append(trace, Call("setFailed", error.message, TRUE))
    /\ pc' = "done"
    /\ UNCHANGED <<argument, returned, config, jobConfig, inputs, client, jobName, resourceGroup, cronSchedule, error, now,
                   startTime, timeoutAtRaise, executionName, finalExecution, location>>

\* a catch block that reports the cleanup delete's own error when that delete fails
CatchCleanupReportsCleanupError ==
    /\ pc = "catch"
    /\ cleanupWanted
    /\ \E ok \in BOOLEAN :
          LET message == IF ok THEN error.message ELSE DeleteError.message
          IN  /\ trace' = trace \o <<Call("delete", jobName, ok),
                                       Call("setFailed", message, TRUE)>>
              /\ SetFailed(message)
    /\ pc' = "done"
    /\ UNCHANGED <<argument, returned, config, jobConfig, inputs, client, jobName, resourceGroup, cronSchedule, error, now,
                   startTime, timeoutAtRaise, executionName, finalExecution, location>>

\* run lines 133-147 with the cleanup delete, then core.setFailed(error.message)
CatchCleanup ==
    /\ pc = "catch"
    /\ cleanupWanted
    /\ \E ok \in BOOLEAN :
          \* an error escaping deleteJob here is caught by the inner try (line 141)
          trace' = trace \o <<Call("delete", jobName, ok),
                               Call("setFailed", error.message, TRUE)>>
    /\ SetFailed(error.message)
    /\ pc' = "done"
    /\ UNCHANGED <<argument, returned, config, jobConfig, inputs, client, jobName, resourceGroup, cronSchedule, error, now,
                   startTime, timeoutAtRaise, executionName, finalExecution, location>>

Next ==
    \/ GetInputs
    \/ Authenticate
    \/ DeleteOnly
    \/ CreateJobGetEnvironment
    \/ CreateJobSubmit
    \/ AfterCreate
    \/ StartJobExecution
    \/ PollCheck
    \/ PollFetch
    \/ PollSleep
    \/ DumpJobLogs
    \/ DeleteJob
    \/ Verdict
    \/ CatchNoCleanup
    \/ CatchCleanup

Spec == Init /\ [][Next]_vars

-----------------------------------------------------------------------------
(* run() with every awaited remote call in two steps: the call is issued, and
   run() resumes when it has settled *)

\* the remote operation that the statement run() stands at calls, "none" when
\* that statement calls none
CallAt ==
    CASE pc = "deleteOnly" -> "delete"
      [] pc = "createJob" -> "environmentGet"
      [] pc = "createSubmit" -> "createOrUpdate"
      [] pc = "startJobExecution" -> "start"
      [] pc = "pollFetch" -> "jobExecution"
      [] pc = "dumpJobLogs" /\ ~WorkspaceIdBlank(inputs.logAnalyticsWorkspaceId)
            -> "queryWorkspace"
      [] pc = "deleteJob" -> "delete"
      [] pc = "catch" /\ cleanupWanted -> "delete"
      [] OTHER -> "none"

\* the history entry of a call that has been issued
Issued(op) == [op |-> "issue", arg |-> op, ok |-> TRUE, detail |-> ""]

\* the call of the current statement has been issued and has not settled
CallIssued == trace # <<>> /\ trace[Len(trace)].op = "issue"

\* a statement that issues its call again while that call has not settled
IssueCallAgain ==
    /\ CallAt # "none"
    /\ trace' = Append(trace, Issued(CallAt))
    /\ UNCHANGED <<argument, returned, config, jobConfig, inputs, pc, client, jobName,
                   resourceGroup, cronSchedule, error, failed, failureMessage, now,
                   startTime, timeoutAtRaise, executionName, finalExecution, location>>

\* the call expression of an await: the remote operation is issued once
IssueCall ==
    /\ CallAt # "none"
    /\ ~CallIssued
    /\ trace' = Append(trace, Issued(CallAt))
    /\ UNCHANGED <<argument, returned, config, jobConfig, inputs, pc, client, jobName,
                   resourceGroup, cronSchedule, error, failed, failureMessage, now,
                   startTime, timeoutAtRaise, executionName, finalExecution, location>>

\* an await resumes only with a settled call; a statement without a call just runs
Resume ==
    /\ CallAt # "none" => CallIssued
    /\ Next

NextAwait ==
    \/ IssueCall
    \/ Resume

SpecAwait == Init /\ [][NextAwait]_vars

-----------------------------------------------------------------------------
(* run() on an event loop that resumes the poll loop: a settled status fetch
   and an expired sleep timer (utils.js sleep, setTimeout) are always delivered *)

SpecPolling ==
    /\ Init
    /\ [][Next]_vars
    /\ WF_vars(PollCheck)
    /\ WF_vars(PollFetch)
    /\ WF_vars(PollSleep)

-----------------------------------------------------------------------------
(* buildJobConfig on its own: the configurations it is applied to *)

SecretKeys ==
    { <<"A", "_", "B">>, <<"A", "-", "B">>,
      <<"R", "E", "G", "I", "S", "T", "R", "Y", "_",
        "P", "A", "S", "S", "W", "O", "R", "D">> }

SecretValues == {"", "https://kv/secret"}

\* the mappings with at most n entries: sequences of entries with distinct keys
Mappings(keys, values, n) ==
    UNION { { m \in [1..k -> [key : keys, value : values]] :
                \A i, j \in 1..k : i # j => m[i].key # m[j].key } : k \in 0..n }

RegistryPasswords == {"", "pw1", "pw2"}

ConfigSpace ==
    [ image                : {"img"},
      command              : {Undefined, Defined(<<"echo", "hi">>)},
      userManagedIdentity  : {"", "/identities/id1"},
      environmentVariables : {<<>>, <<Entry(<<"L", "O", "G">>, "info")>>},
      secrets              : Mappings(SecretKeys, SecretValues, MaxSecrets),
      cpu                  : {<<"0", ".", "5">>, <<"a", "b", "c">>},
      memory               : {"1Gi"},
      registryServer       : {"", "ghcr.io"},
      registryUsername     : {"", "user"},
      registryPassword     : RegistryPasswords,
      cronSchedule         : {"", "0 2 * * *"} ]

DefaultInputs ==
    [ subscriptionId |-> "sub", resourceGroup |-> "rg", environmentName |-> "env",
      jobName |-> "my-job", image |-> "img", cronSchedule |-> "", timeout |-> 10,
      dryRun |-> FALSE, manualExecution |-> FALSE, onlyDeleteJob |-> FALSE,
      logAnalyticsWorkspaceId |-> "", environmentVariables |-> "", secrets |-> "" ]

InitConfig ==
    /\ inputs = DefaultInputs
    /\ pc = "buildJobConfig"
    /\ client = FALSE
    /\ jobName = ""
    /\ resourceGroup = ""
    /\ cronSchedule = ""
    /\ error = NoError
    /\ trace = <<>>
    /\ failed = FALSE
    /\ failureMessage = ""
    /\ now = 0
    /\ startTime = 0
    /\ timeoutAtRaise = -1
    /\ executionName = ""
    /\ finalExecution = NoExecution
    /\ location \in {eastus, westus}
    /\ config \in ConfigSpace
    /\ jobConfig = NoDocument
    /\ argument = Undefined
    /\ returned = Undefined

\* a buildJobConfig that takes the entries out of the secrets mapping it is given
BuildJobConfigInPlace ==
    /\ pc \in {"buildJobConfig", "configBuilt"}
    /\ jobConfig' = buildJobConfig(inputs.subscriptionId, inputs.resourceGroup,
                                   inputs.environmentName, location, config)
    /\ config' = [config EXCEPT !.secrets = <<>>]
    /\ pc' = IF pc = "buildJobConfig" THEN "configBuilt" ELSE "configRebuilt"
    /\ UNCHANGED <<argument, returned, inputs, client, jobName, resourceGroup,
                   cronSchedule, error, trace, failed, failureMessage, now, startTime, timeoutAtRaise,
                   executionName, finalExecution, location>>

\* one call of buildJobConfig; it is called a second time with the same arguments
BuildJobConfig ==
    /\ pc \in {"buildJobConfig", "configBuilt"}
    /\ jobConfig' = buildJobConfig(inputs.subscriptionId, inputs.resourceGroup,
                                   inputs.environmentName, location, config)
    /\ pc' = IF pc = "buildJobConfig" THEN "configBuilt" ELSE "configRebuilt"
    /\ UNCHANGED <<argument, returned, config, inputs, client, jobName, resourceGroup, cronSchedule, error,
                   trace, failed, failureMessage, now, startTime, timeoutAtRaise,
                   executionName, finalExecution, location>>

NextConfig == BuildJobConfig

SpecConfig == InitConfig /\ [][NextConfig]_vars

-----------------------------------------------------------------------------
(* The utility functions on their own: parseCommand, parseJsonInput and
   generateJobName, each applied once to an argument *)

\* sequences over a set of characters, of length at most n
Strings(alphabet, n) == UNION {[1..k -> alphabet] : k \in 0..n}

CommandAlphabet == {" ", "\t", "e", "h"}

\* null, or a string
CommandStrings ==
    {Undefined} \cup {Defined(str) : str \in Strings(CommandAlphabet, MaxCommandLen)}

RECURSIVE stringify(_)
RECURSIVE StringifyEntries(_)
\* JSON.stringify
stringify(value) ==
    CASE value.type = "null" -> <<"n", "u", "l", "l">>
      [] value.type = "number" -> value.digits
      [] value.type = "string" -> <<"\"">> \o value.chars \o <<"\"">>
      [] value.type = "object" -> <<"{">> \o StringifyEntries(value.entries) \o <<"}">>

StringifyEntries(entries) ==
    IF entries = <<>> THEN <<>>
    ELSE <<"\"">> \o Head(entries).key \o <<"\"", ":">> \o stringify(Head(entries).value)
         \o (IF Len(entries) > 1 THEN <<",">> ELSE <<>>)
         \o StringifyEntries(Tail(entries))

\* objects whose text is given to parseJsonInput
JsonObjects ==
    { JsonObject(<<>>),
      JsonObject(<<Entry(<<"F", "O", "O">>, JsonString(<<"b", "a", "r">>)),
                   Entry(<<"N", "U", "M">>, JsonNumber(<<"1">>))>>),
      JsonObject(<<Entry(<<"A", "_", "B">>, JsonString(<<>>))>>),
      JsonObject(<<Entry(<<"a">>, JsonObject(<<Entry(<<"b">>, JsonNull)>>))>>) }

\* the text of {"a": "b c"} with whitespace around every token
PaddedText == <<" ", "{", "\t", "\"", "a", "\"", " ", ":", " ", "\"", "b", " ", "c", "\"", " ", "}", "\n">>
PaddedObject == JsonObject(<<Entry(<<"a">>, JsonString(<<"b", " ", "c">>))>>)

BlankTexts == {<<>>, <<" ">>, <<" ", "\t", "\n">>}

\* texts that are not JSON
MalformedTexts ==
    { <<"n", "o", "t", "-", "j", "s", "o", "n">>,
      <<"{">>,
      <<"{", "\"", "a", "\"">>,
      <<"{", "\"", "a", "\"", ":", "}">>,
      <<"{", "\"", "a", "\"", ":", "\"", "b", "\"", ",", "}">>,
      <<"{", "\"", "a", "\"", ":", "\"", "b", "\"", "}", "}">>,
      <<"{", "a", ":", "\"", "b", "\"", "}">>,
      <<"{", "\"", "a", "\"", " ", "\"", "b", "\"", "}">>,
      <<"{", "\"", "a", "\"", ":", "\"", "b", "\"">>,
      <<"n", "u", "l">> }

\* texts of JSON values that are not objects
NonObjectTexts ==
    { <<"n", "u", "l", "l">>,
      <<"[", "]">>,
      <<"[", "1", ",", "\"", "a", "\"", "]">>,
      <<"1">>,
      <<"\"", "a", "\"">> }

JsonInputs ==
    {Undefined} \cup
    {Defined(text) : text \in BlankTexts \cup MalformedTexts \cup NonObjectTexts
                                \cup {PaddedText}
                                \cup {stringify(o) : o \in JsonObjects}}

TimeoutAlphabet == {" ", "-", "0", "1", "a"}

\* the timeout input: absent, or a text
TimeoutInputs ==
    {Undefined}
    \cup {Defined(str) : str \in Strings(TimeoutAlphabet, MaxTimeoutLen)}
    \cup {Defined(<<"3", "0">>), Defined(<<"+", "5">>), Defined(<<"1", ".", "5">>)}

JsonInputNames == {"environment-variables", "secrets"}

Job == <<"j", "o", "b">>

\* the prefix argument of generateJobName, Undefined when it is left out
JobNamePrefixes == {Undefined, Defined(GhJob), Defined(<<"g", "h">>)}

Timestamps == GeneratedTimestamps \cup {<<"9", "9", "9">>}

RandomDigits == {"0", "i", "z"}

\* values of Math.random(): 0 (no digit), or digits of which the last is not 0
Randoms ==
    GeneratedRandoms \cup
    {f \in Strings(RandomDigits, MaxRandomDigits) : f = <<>> \/ f[Len(f)] # "0"}

InitUtils ==
    /\ inputs = DefaultInputs
    /\ client = FALSE
    /\ jobName = ""
    /\ resourceGroup = ""
    /\ cronSchedule = ""
    /\ error = NoError
    /\ trace = <<>>
    /\ failed = FALSE
    /\ failureMessage = ""
    /\ now = 0
    /\ startTime = 0
    /\ timeoutAtRaise = -1
    /\ executionName = ""
    /\ finalExecution = NoExecution
    /\ location = <<>>
    /\ config = RunConfig(DefaultInputs)
    /\ jobConfig = NoDocument
    /\ returned = Undefined
    /\ \/ pc = "parseCommand" /\ argument \in CommandStrings
       \/ pc = "parseJsonInput" /\ argument \in [name : JsonInputNames, input : JsonInputs]
       \/ pc = "generateJobName" /\ argument \in JobNamePrefixes
       \/ pc = "getInputsTimeout" /\ argument \in TimeoutInputs

\* one call of parseCommand
ParseCommand ==
    /\ pc = "parseCommand"
    /\ returned' = parseCommand(argument)
    /\ pc' = "parseCommandReturned"
    /\ UNCHANGED <<argument, config, jobConfig, inputs, client, jobName, resourceGroup,
                   cronSchedule, error, trace, failed, failureMessage, now, startTime,
                   timeoutAtRaise, executionName, finalExecution, location>>

\* one call of parseJsonInput(name), getInput(name) returning argument.input
ParseJsonInput ==
    /\ pc = "parseJsonInput"
    /\ LET r == parseJsonInput(argument.input)
       IN  IF r.ok
           THEN returned' = r.value /\ pc' = "parseJsonInputReturned" /\ UNCHANGED error
           ELSE /\ error' = ParseError(argument.name)
                /\ pc' = "parseJsonInputThrew"
                /\ UNCHANGED returned
    /\ UNCHANGED <<argument, config, jobConfig, inputs, client, jobName, resourceGroup,
                   cronSchedule, trace, failed, failureMessage, now, startTime,
                   timeoutAtRaise, executionName, finalExecution, location>>

\* one call of generateJobName(prefix), the prefix defaulting to 'job'
GenerateJobName ==
    /\ pc = "generateJobName"
    /\ \E ts \in Timestamps, rnd \in Randoms :
          returned' = generateJobName(IF argument.defined THEN argument.value ELSE Job,
                                      ts, rnd)
    /\ pc' = "generateJobNameReturned"
    /\ UNCHANGED <<argument, config, jobConfig, inputs, client, jobName, resourceGroup,
                   cronSchedule, error, trace, failed, failureMessage, now, startTime,
                   timeoutAtRaise, executionName, finalExecution, location>>

\* the timeout line of getInputs, the INPUT_TIMEOUT variable being argument
GetInputsTimeout ==
    /\ pc = "getInputsTimeout"
    /\ returned' = getInputsTimeout(argument)
    /\ pc' = "getInputsTimeoutReturned"
    /\ UNCHANGED <<argument, config, jobConfig, inputs, client, jobName, resourceGroup,
                   cronSchedule, error, trace, failed, failureMessage, now, startTime,
                   timeoutAtRaise, executionName, finalExecution, location>>

NextUtils ==
    \/ ParseCommand
    \/ ParseJsonInput
    \/ GenerateJobName
    \/ GetInputsTimeout

SpecUtils == InitUtils /\ [][NextUtils]_vars

-----------------------------------------------------------------------------
(* Reading the history *)

RemoteOps ==
    {"environmentGet", "createOrUpdate", "start", "jobExecution", "queryWorkspace",
     "delete"}

\* positions of the history that hold a call of this operation
Calls(op) == {i \in DOMAIN trace : trace[i].op = op}

RemoteCalls == {i \in DOMAIN trace : trace[i].op \in RemoteOps}

StandardMode ==
    /\ ~inputs.onlyDeleteJob
    /\ inputs.cronSchedule = ""
    /\ ~inputs.manualExecution
    /\ ~inputs.dryRun

\* the name run() resolves for these inputs
ResolvedNames ==
    IF inputs.jobName # "" THEN {inputs.jobName}
    ELSE {Text(generateJobName(GhJob, ts, rnd)) :
            ts \in GeneratedTimestamps, rnd \in GeneratedRandoms}

\* the record the poll loop returned reports a non-zero container exit code
ReportsNonZeroExit(execution) == execution.exitCode \notin {NoExitCode, 0}

CreateSucceeded == \E i \in Calls("createOrUpdate") : trace[i].ok

PollPcs == {"pollCheck", "pollFetch", "pollSleep"}

-----------------------------------------------------------------------------
(* Claims *)

\* C1: in standard mode, when the poll loop ended on an execution whose status
\* is Failed or whose reported exit code is non-zero, the finished run is marked
\* failed; when the status is Succeeded and the exit code is 0 or not reported,
\* the finished run is not marked failed.
C1_FinalStatusDecidesOutcome ==
    (pc = "done" /\ StandardMode /\ finalExecution # NoExecution) =>
        /\ (pollStatus(finalExecution) = "Failed" \/ ReportsNonZeroExit(finalExecution))
              => failed
        /\ (pollStatus(finalExecution) = "Succeeded"
              /\ ~ReportsNonZeroExit(finalExecution)) => ~failed

\* C2: a finished run in which create, start or the poll loop raised, with no
\* cron schedule requested, ends with a delete call for the resolved job name
\* issued after the error, followed by setFailed with the original error's message.
C2_CleanupDeleteThenFail ==
    (pc = "done" /\ error.kind \in {"create", "start", "timeout"}
       /\ inputs.cronSchedule = "") =>
        /\ Len(trace) >= 2
        /\ trace[Len(trace) - 1].op = "delete"
        /\ trace[Len(trace) - 1].arg \in ResolvedNames
        /\ trace[Len(trace)] = Call("setFailed", error.message, TRUE)
        /\ \A i \in Calls("createOrUpdate") \cup Calls("start") : i < Len(trace) - 1
        /\ failed
        /\ failureMessage = error.message
        /\ error.message \in
              {"Failed to create job: " \o ProviderMessage,
               "Failed to start job execution: " \o ProviderMessage,
               TimeoutError(inputs.timeout).message}

C2_Witness ==
    /\ pc = "done"
    /\ error.kind = "timeout"
    /\ inputs.cronSchedule = ""
    /\ inputs.manualExecution = FALSE
    /\ Calls("delete") # {}

\* C3: with dry-run set, the run issues no remote call of any kind.
C3_DryRunNoRemoteCall == inputs.dryRun => RemoteCalls = {}

\* C4: in standard mode, once the poll loop has returned an execution that is
\* Failed or reports a non-zero exit code, the run reaches its verdict only after
\* the delete call, and when the run is marked failed the delete call and both
\* the job-name and the execution-name outputs precede the setFailed.
C4_DeleteAndOutputsBeforeFailure ==
    (StandardMode /\ finalExecution # NoExecution
       /\ (pollStatus(finalExecution) = "Failed" \/ runFails(finalExecution))) =>
        /\ pc \in {"verdict", "done"} => Calls("delete") # {}
        /\ failed =>
              /\ Calls("setFailed") = {Len(trace)}
              /\ \E i \in Calls("delete") : i < Len(trace)
              /\ \E i \in Calls("setOutput:job-name") :
                    i < Len(trace) /\ trace[i].arg = jobName
              /\ \E i \in Calls("setOutput:execution-name") :
                    i < Len(trace) /\ trace[i].arg = executionName

C4_Witness ==
    /\ pc = "done"
    /\ StandardMode
    /\ finalExecution # NoExecution
    /\ runFails(finalExecution)
    /\ failed
    /\ Calls("delete") # {}

\* C5: a delete-only run whose inputs are accepted issues exactly one remote
\* call, the delete of the resolved job name, and ends not marked failed,
\* whatever the outcome of that delete.
C5_DeleteOnlyOneCall ==
    (inputs.onlyDeleteJob /\ getInputsError(inputs) = NoError) =>
        /\ \A i \in RemoteCalls :
              trace[i].op = "delete" /\ trace[i].arg \in ResolvedNames
        /\ Cardinality(RemoteCalls) <= 1
        /\ pc = "done" => (Cardinality(RemoteCalls) = 1 /\ ~failed /\ Len(trace) = 1)

C5_Witness ==
    /\ pc = "done"
    /\ inputs.onlyDeleteJob
    /\ inputs.jobName = "my-job"
    /\ trace = <<Call("delete", "my-job", FALSE)>>
    /\ ~failed

\* C6: in scheduled or manual-execution mode, once the create call has
\* succeeded no start, status fetch or delete call is ever issued, nothing is
\* raised, and the finished run is not marked failed.
C6_LongLivedJobLeftAlive ==
    (~inputs.onlyDeleteJob /\ (inputs.cronSchedule # "" \/ inputs.manualExecution)
       /\ CreateSucceeded) =>
        /\ Calls("start") = {}
        /\ Calls("jobExecution") = {}
        /\ Calls("delete") = {}
        /\ pc \in {"afterCreate", "done"}
        /\ error = NoError
        /\ ~failed

C6_Witness ==
    /\ pc = "done"
    /\ inputs.manualExecution
    /\ inputs.cronSchedule = ""
    /\ ~inputs.onlyDeleteJob
    /\ CreateSucceeded
    /\ Calls("setOutput:job-name") # {}

\* C7: when a cron schedule was requested and a step raised, the finished run
\* has issued no delete call and is marked failed with the original error's
\* message.
C7_NoCleanupForScheduledJob ==
    (pc = "done" /\ inputs.cronSchedule # "" /\ error # NoError) =>
        /\ Calls("delete") = {}
        /\ failed
        /\ failureMessage = error.message
        /\ trace[Len(trace)] = Call("setFailed", error.message, TRUE)

C7_Witness ==
    /\ pc = "done"
    /\ inputs.cronSchedule # ""
    /\ error.kind = "create"
    /\ failed

\* a step other than a delete raised: getInputs, create, start or the poll timeout
StepRaised ==
    \/ getInputsError(inputs) # NoError
    \/ \E i \in Calls("createOrUpdate") \cup Calls("start") : ~trace[i].ok
    \/ timeoutAtRaise >= 0

\* C8: deleteJob never hands an error to its caller, and the result of a
\* finished run is decided by the steps other than the delete alone: the run
\* is marked failed exactly when such a step raised or the returned execution
\* fails the verdict, whatever the outcome of any delete call.
C8_DeleteNeverChangesOutcome ==
    /\ error.kind # "delete"
    /\ pc = "done" =>
          /\ failed = (StepRaised
                         \/ (finalExecution # NoExecution /\ runFails(finalExecution)))
          /\ StepRaised => failureMessage = error.message

C8_Witness ==
    /\ pc = "done"
    /\ ~failed
    /\ StandardMode
    /\ \E i \in Calls("delete") : ~trace[i].ok

\* C9: pollJobExecution returns only an execution whose fetched status is
\* Succeeded or Failed, and it is left in no other way than by that return or
\* by the timeout error, raised with the elapsed time above the timeout.
C9_PollReturnsTerminalOrTimesOut ==
    /\ [](finalExecution # NoExecution =>
             pollStatus(finalExecution) \in {"Succeeded", "Failed"})
    /\ [](error.kind = "timeout" => timeoutAtRaise > inputs.timeout * 1000)
    /\ [][(pc \in PollPcs /\ pc' \notin PollPcs) =>
             \/ /\ pc' = "dumpJobLogs"
                /\ pollStatus(finalExecution') \in {"Succeeded", "Failed"}
                /\ trace' = Append(trace, FetchCall(jobName, executionName, TRUE))
                /\ error' = NoError
             \/ /\ pc' = "catch"
                /\ error' = TimeoutError(inputs.timeout)
                /\ now' - startTime > inputs.timeout * 1000
                /\ finalExecution' = NoExecution]_vars

C9_Witness ==
    /\ finalExecution # NoExecution
    /\ pollStatus(finalExecution) = "Failed"
    /\ Cardinality(Calls("jobExecution")) >= 2

\* C10: a failed status fetch is never the end of polling: it is followed by
\* a sleep and, unless the timeout is then exceeded, by another fetch; nothing
\* but the timeout error comes out of a poll loop that saw a failed fetch.
C10_FetchErrorDoesNotAbort ==
    /\ [](\A i \in Calls("jobExecution") : ~trace[i].ok =>
             \/ i = Len(trace) /\ pc \in PollPcs /\ error = NoError
             \/ i < Len(trace) /\ trace[i + 1].op = "jobExecution"
             \/ error.kind = "timeout" /\ timeoutAtRaise > inputs.timeout * 1000)
    /\ [][(pc = "pollFetch" /\ pc' # "dumpJobLogs") => pc' = "pollSleep"]_vars
    /\ [][pc = "pollSleep" => pc' = "pollCheck"]_vars
    /\ [][(pc = "pollCheck" /\ ~pollTimedOut(now' - startTime, inputs.timeout))
             => pc' = "pollFetch"]_vars

C10_Witness ==
    /\ finalExecution # NoExecution
    /\ \E i \in Calls("jobExecution") : ~trace[i].ok
    /\ trace[Len(trace)] = FetchCall(jobName, executionName, TRUE)

\* C11: when the poll loop raised the timeout error the finished run has issued
\* the cleanup delete and is marked failed with the message that names the
\* timeout in seconds; no log query is ever issued, and once the timeout is
\* raised no status fetch is issued any more.
C11_TimeoutIsFatal ==
    /\ [](error.kind = "timeout" =>
             /\ Calls("queryWorkspace") = {}
             /\ error.message = "Job execution timed out after "
                                   \o ToString(inputs.timeout) \o " seconds"
             /\ pc = "done" =>
                   /\ Len(trace) >= 2
                   /\ trace[Len(trace) - 1].op = "delete"
                   /\ trace[Len(trace) - 1].arg = jobName
                   /\ trace[Len(trace)].op = "setFailed"
                   /\ failed
                   /\ failureMessage = "Job execution timed out after "
                                         \o ToString(inputs.timeout) \o " seconds")
    /\ [][error.kind = "timeout" => Calls("jobExecution")' = Calls("jobExecution")]_vars

C11_Witness ==
    /\ pc = "done"
    /\ error.kind = "timeout"
    /\ inputs.timeout = 10
    /\ Cardinality(Calls("jobExecution")) >= 2
    /\ Calls("delete") # {}

\* the entry before position i of the history
Before(i) == trace[i - 1]

\* C12: the lifecycle calls are ordered: a start follows a successful create, a
\* status fetch follows a start that returned an execution, a log query comes
\* right after the status fetch that returned the terminal execution, and the
\* happy-path delete comes after log retrieval (right after the query, or right
\* after the terminal fetch when there is no workspace to query).
C12_LifecycleOrder ==
    /\ \A i \in Calls("start") :
          i > 1 /\ \E j \in Calls("createOrUpdate") : j < i /\ trace[j].ok
    /\ \A i \in Calls("jobExecution") :
          /\ \E j \in Calls("start") : j < i /\ trace[j].ok
          /\ trace[i].detail = StartedExecutionName
    /\ \A i \in Calls("queryWorkspace") :
          /\ i > 1
          /\ Before(i) = FetchCall(jobName, executionName, TRUE)
          /\ pollIsTerminal(pollStatus(finalExecution))
    /\ \A i \in Calls("delete") :
          (error = NoError /\ ~inputs.onlyDeleteJob) =>
             /\ i > 1
             /\ finalExecution # NoExecution
             /\ IF WorkspaceIdBlank(inputs.logAnalyticsWorkspaceId)
                THEN Before(i) = FetchCall(jobName, executionName, TRUE)
                ELSE Before(i).op = "queryWorkspace"

C12_Witness ==
    /\ pc = "done"
    /\ error = NoError
    /\ Calls("queryWorkspace") # {}
    /\ trace[Len(trace)].op = "delete"

\* C13: the job name is resolved once (the job-name input when supplied,
\* otherwise one generated name), never changes afterwards, and every create,
\* start, status fetch, log query, delete and the job-name output carry it.
C13_OneJobName ==
    /\ [](jobName # "" => jobName \in ResolvedNames)
    /\ [](\A i \in DOMAIN trace :
             trace[i].op \in {"createOrUpdate", "start", "jobExecution",
                              "queryWorkspace", "delete", "setOutput:job-name"}
               => trace[i].arg = jobName /\ jobName # "")
    /\ [][jobName # "" => jobName' = jobName]_vars

C13_Witness ==
    /\ pc = "done"
    /\ inputs.jobName = ""
    /\ jobName = "gh-job-1700000000000-0z81qp"
    /\ Calls("queryWorkspace") # {}
    /\ Calls("delete") # {}
    /\ Calls("setOutput:job-name") # {}

\* C14 as stated: every finished run that resolved the job name has set the
\* job-name output, and the execution-name output is set only in standard mode
\* and only right after a successful start.
C14_JobNameOutputAlways ==
    /\ (pc = "done" /\ jobName # "") => Calls("setOutput:job-name") # {}
    /\ \A i \in Calls("setOutput:execution-name") :
          StandardMode /\ i > 1 /\ Before(i) = Call("start", jobName, TRUE)

\* C14 as amended: the job-name output is set exactly when the create call has
\* succeeded, right after it (so not in delete-only runs and not when create
\* fails); the execution-name output is set only in standard mode and only
\* right after a successful start.
C14_JobNameOutputAfterCreate ==
    /\ \A i \in Calls("setOutput:job-name") :
          i > 1 /\ Before(i) = Call("createOrUpdate", jobName, TRUE)
    /\ (CreateSucceeded /\ pc # "afterCreate") =>
          Cardinality(Calls("setOutput:job-name")) = 1
    /\ ~CreateSucceeded => Calls("setOutput:job-name") = {}
    /\ \A i \in Calls("setOutput:execution-name") :
          /\ StandardMode
          /\ i > 1
          /\ Before(i) = Call("start", jobName, TRUE)
          /\ trace[i].arg = executionName

C14_Witness ==
    /\ pc = "done"
    /\ StandardMode
    /\ Calls("setOutput:job-name") # {}
    /\ Calls("setOutput:execution-name") # {}

\* C15: when getInputs raises (a required input missing, or malformed JSON in
\* environment-variables or secrets) no remote call is ever issued, the cleanup
\* delete included, and the finished run is marked failed with that error.
C15_InputErrorNoRemoteCall ==
    getInputsError(inputs) # NoError =>
        /\ RemoteCalls = {}
        /\ pc \in {"getInputs", "catch", "done"}
        /\ pc = "done" =>
              /\ failed
              /\ failureMessage = getInputsError(inputs).message
              /\ trace = <<Call("setFailed", getInputsError(inputs).message, TRUE)>>

C15_Witness ==
    /\ pc = "done"
    /\ inputs.subscriptionId # ""
    /\ inputs.resourceGroup # ""
    /\ inputs.environmentName # ""
    /\ inputs.secrets = "not-json"
    /\ failed

\* C16: a run without only-delete-job and with an empty image is rejected as an
\* input error before any remote call.
C16_ImageRequired ==
    (~inputs.onlyDeleteJob /\ inputs.image = "") =>
        /\ RemoteCalls = {}
        /\ pc = "done" => (failed /\ error.kind = "input")

\* C17: a delete-only run that supplies subscription-id, resource-group and
\* job-name, and neither environment-name nor image, issues the delete of that
\* job name and does not fail on input validation.
C17_DeleteOnlyRequiredInputs ==
    (pc = "done" /\ inputs.onlyDeleteJob /\ inputs.subscriptionId # ""
       /\ inputs.resourceGroup # "" /\ inputs.jobName # ""
       /\ inputs.environmentName = "" /\ inputs.image = ""
       /\ inputs.environmentVariables = "" /\ inputs.secrets = "") =>
        /\ \E i \in Calls("delete") : trace[i].arg = inputs.jobName
        /\ error.kind # "input"
        /\ ~failed

\* C18: a finished run is marked failed only if a step raised or, in standard
\* mode, the returned execution is Failed or reports a non-zero exit code; a
\* finished delete-only, scheduled, manual-execution or dry-run run in which no
\* step raised is not marked failed.
C18_FailedOnlyIf ==
    pc = "done" =>
        /\ failed =>
              \/ error.kind \in {"input", "create", "start", "timeout"}
              \/ /\ StandardMode
                 /\ finalExecution # NoExecution
                 /\ \/ pollStatus(finalExecution) = "Failed"
                    \/ runStatus(finalExecution) = "Failed"
                    \/ ReportsNonZeroExit(finalExecution)
        /\ (~StandardMode /\ error = NoError) => ~failed

C18_Witness ==
    /\ pc = "done"
    /\ failed
    /\ error = NoError
    /\ StandardMode
    /\ ReportsNonZeroExit(finalExecution)

\* C19: dumpJobLogs never raises, whatever the outcome of the query; it issues
\* no query when the workspace id is empty or whitespace; and the result of the
\* run does not depend on the outcome: after log retrieval the run goes on to
\* the delete, and its verdict is that of the returned execution alone.
C19_LogsNeverFailTheRun ==
    /\ [](error.kind # "logs")
    /\ [](WorkspaceIdBlank(inputs.logAnalyticsWorkspaceId) => Calls("queryWorkspace") = {})
    /\ [](\A i \in Calls("queryWorkspace") : trace[i].detail \in LogOutcomes)
    /\ [][pc = "dumpJobLogs" =>
             pc' = "deleteJob" /\ error' = error /\ failed' = failed]_vars
    /\ []((pc = "done" /\ finalExecution # NoExecution) =>
             failed = runFails(finalExecution))

C19_Witness ==
    /\ pc = "done"
    /\ ~failed
    /\ \E i \in Calls("queryWorkspace") : trace[i].detail = "throws"

\* the names of the secrets of a document
SecretNames(document) ==
    {document.configuration.secrets[i].name : i \in DOMAIN document.configuration.secrets}

\* C20: in every document built by buildJobConfig the secret names in
\* configuration.secrets are pairwise distinct.
C20_SecretNamesDistinct ==
    jobConfig # NoDocument =>
        Cardinality(SecretNames(jobConfig)) = Len(jobConfig.configuration.secrets)

\* the secrets list and the env list of a document
DocumentSecrets(document) == document.configuration.secrets
DocumentEnv(document) == document.template.containers[1].env

\* the entries of the mapping whose value is not empty, in order
NonEmptyEntries(secrets) == SelectSeq(secrets, LAMBDA e : e.value # "")

\* the key vault entries of the secrets list and the secretRef entries of the
\* env list, in order
KeyVaultSecrets(document) ==
    SelectSeq(DocumentSecrets(document), LAMBDA e : "keyVaultUrl" \in DOMAIN e)
SecretRefEnv(document) ==
    SelectSeq(DocumentEnv(document), LAMBDA e : "secretRef" \in DOMAIN e)

\* the normalized names of the keys of SecretKeys
NormalizedName(key) ==
    IF key \in {<<"A", "_", "B">>, <<"A", "-", "B">>} THEN <<"a", "-", "b">>
    ELSE <<"r", "e", "g", "i", "s", "t", "r", "y", "-",
           "p", "a", "s", "s", "w", "o", "r", "d">>

\* C21: in a built document the entries of the secrets mapping whose value is
\* empty give no entry of the secrets list and no secretRef entry of the env
\* list; every entry with a non-empty value gives exactly one of each, in the
\* order of the mapping: the secret under the normalized name of the key with
\* the value as its key vault url, the env entry under the key with that
\* normalized name as its secretRef.
C21_SecretEntriesOncePerValue ==
    jobConfig # NoDocument =>
        LET kept == NonEmptyEntries(config.secrets)
            secrets == KeyVaultSecrets(jobConfig)
            refs == SecretRefEnv(jobConfig)
        IN  /\ Len(secrets) = Len(kept)
            /\ Len(refs) = Len(kept)
            /\ \A j \in DOMAIN kept :
                  /\ secrets[j].name = NormalizedName(kept[j].key)
                  /\ secrets[j].keyVaultUrl = kept[j].value
                  /\ refs[j].name = kept[j].key
                  /\ refs[j].secretRef = NormalizedName(kept[j].key)
            /\ \A k \in DOMAIN config.secrets :
                  config.secrets[k].value = "" =>
                      \A j \in DOMAIN refs : refs[j].name # config.secrets[k].key

C21_Witness ==
    /\ pc = "configBuilt"
    /\ config.secrets = <<Entry(<<"A", "_", "B">>, ""),
                          Entry(<<"A", "-", "B">>, "https://kv/secret")>>
    /\ Len(DocumentSecrets(jobConfig)) = 1

\* C22: the registries list of a built document has exactly one entry iff
\* registry server, username and password are all non-empty; otherwise it is
\* empty and the secrets list has no entry with an inline value; and when the
\* server or the username is missing the document is the same for every value
\* of the password.
C22_RegistryBlockNeedsAllThree ==
    jobConfig # NoDocument =>
        LET allThree == /\ config.registryServer # ""
                        /\ config.registryUsername # ""
                        /\ config.registryPassword # ""
        IN  /\ Len(jobConfig.configuration.registries) = (IF allThree THEN 1 ELSE 0)
            /\ allThree =>
                  /\ jobConfig.configuration.registries[1].server = config.registryServer
                  /\ jobConfig.configuration.registries[1].username = config.registryUsername
            /\ ~allThree =>
                  \A i \in DOMAIN DocumentSecrets(jobConfig) :
                      "value" \notin DOMAIN DocumentSecrets(jobConfig)[i]
            /\ (config.registryServer = "" \/ config.registryUsername = "") =>
                  \A password \in RegistryPasswords :
                      buildJobConfig(inputs.subscriptionId, inputs.resourceGroup,
                                     inputs.environmentName, location,
                                     [config EXCEPT !.registryPassword = password])
                        = jobConfig

C22_Witness ==
    /\ pc = "configBuilt"
    /\ config.registryServer # ""
    /\ config.registryUsername = ""
    /\ config.registryPassword = "pw1"
    /\ config.secrets # <<>>
    /\ jobConfig.configuration.registries = <<>>

\* C23: a built document has triggerType Schedule and a scheduleTriggerConfig
\* with the given cron expression iff a cron schedule is present, and triggerType
\* Manual and a manualTriggerConfig otherwise; exactly one of the two is present
\* and it has parallelism 1 and replicaCompletionCount 1.
C23_TriggerFollowsCron ==
    jobConfig # NoDocument =>
        LET c == jobConfig.configuration
        IN  IF config.cronSchedule # ""
            THEN /\ c.triggerType = "Schedule"
                 /\ "scheduleTriggerConfig" \in DOMAIN c
                 /\ "manualTriggerConfig" \notin DOMAIN c
                 /\ c.scheduleTriggerConfig.cronExpression = config.cronSchedule
                 /\ c.scheduleTriggerConfig.parallelism = 1
                 /\ c.scheduleTriggerConfig.replicaCompletionCount = 1
            ELSE /\ c.triggerType = "Manual"
                 /\ "manualTriggerConfig" \in DOMAIN c
                 /\ "scheduleTriggerConfig" \notin DOMAIN c
                 /\ c.manualTriggerConfig.parallelism = 1
                 /\ c.manualTriggerConfig.replicaCompletionCount = 1

C23_Witness ==
    /\ pc = "configBuilt"
    /\ config.cronSchedule = "0 2 * * *"
    /\ jobConfig.configuration.triggerType = "Schedule"

Blank(str) == \A i \in DOMAIN str : IsWhitespace(str[i])

\* the characters of str that are not whitespace, in order
NonWhitespace(str) == SelectSeq(str, LAMBDA c : ~IsWhitespace(c))

\* the positions of str where a run of non-whitespace characters begins
WordStarts(str) ==
    {i \in DOMAIN str : ~IsWhitespace(str[i]) /\ (i = 1 \/ IsWhitespace(str[i - 1]))}

RECURSIVE Flatten(_)
Flatten(tokens) == IF tokens = <<>> THEN <<>> ELSE Head(tokens) \o Flatten(Tail(tokens))

\* C25: parseCommand returns undefined for null and for a string that is
\* empty or all whitespace; for any other string it returns the maximal runs of
\* non-whitespace characters in order: no token is empty or holds whitespace,
\* the tokens together are the non-whitespace characters of the string, and
\* there is one token per run; "  echo  hello world " gives echo, hello, world.
C25_ParseCommandTokens ==
    /\ pc = "parseCommandReturned" =>
          IF ~argument.defined \/ Blank(argument.value)
          THEN returned = Undefined
          ELSE /\ returned.defined
               /\ \A i \in DOMAIN returned.value :
                     returned.value[i] # <<>> /\ ~\E j \in DOMAIN returned.value[i] :
                                                    IsWhitespace(returned.value[i][j])
               /\ Flatten(returned.value) = NonWhitespace(argument.value)
               /\ Len(returned.value) = Cardinality(WordStarts(argument.value))
    /\ parseCommand(Defined(<<" ", " ", "e", "c", "h", "o", " ", " ", "h", "e", "l", "l", "o", " ", "w", "o", "r", "l", "d", " ">>))
          = Defined(<<<<"e", "c", "h", "o">>, <<"h", "e", "l", "l", "o">>, <<"w", "o", "r", "l", "d">>>>)

C25_Witness ==
    /\ pc = "parseCommandReturned"
    /\ argument = Defined(<<" ", "e", "\t", "h">>)
    /\ returned = Defined(<< <<"e">>, <<"h">> >>)

\* C26: parseJsonInput returns the empty mapping when the input is unset,
\* empty or all whitespace, returns the object a valid JSON object text
\* describes, and for a text that is not JSON raises an error whose message
\* starts with "Failed to parse " and the name of the input.
C26_ParseJsonInput ==
    pc \in {"parseJsonInputReturned", "parseJsonInputThrew"} =>
        /\ (~argument.input.defined \/ argument.input.value \in BlankTexts) =>
              pc = "parseJsonInputReturned" /\ returned = JsonObject(<<>>)
        /\ \A o \in JsonObjects :
              argument.input = Defined(stringify(o)) =>
                 pc = "parseJsonInputReturned" /\ returned = o
        /\ argument.input = Defined(PaddedText) =>
              pc = "parseJsonInputReturned" /\ returned = PaddedObject
        /\ (argument.input.defined /\ argument.input.value \in MalformedTexts) =>
              /\ pc = "parseJsonInputThrew"
              /\ error.kind = "input"
              /\ error.message = "Failed to parse " \o argument.name \o ": Unexpected token"

C26_Witness ==
    /\ pc = "parseJsonInputReturned"
    /\ argument.name = "secrets"
    /\ argument.input = Defined(<<"{", "\"", "F", "O", "O", "\"", ":", "\"", "b", "a", "r", "\"", ",", "\"", "N", "U", "M", "\"", ":", "1", "}">>)
    /\ Len(returned.entries) = 2

Base36Digits == {Digits[i] : i \in DOMAIN Digits} \cup {LowerCase[i] : i \in DOMAIN LowerCase}

\* the position of the last "-" of a name
LastDash(name) ==
    CHOOSE i \in DOMAIN name : name[i] = "-" /\ \A j \in (i + 1)..Len(name) : name[j] # "-"

\* C27: every name generateJobName returns is the prefix ("job" when none is
\* given), "-", one or more decimal digits, "-", and a suffix of exactly 6
\* characters from a-z and 0-9.
C27_GeneratedNameForm ==
    pc = "generateJobNameReturned" =>
        LET prefix == IF argument.defined THEN argument.value ELSE Job
            k == LastDash(returned)
            digits == SubSeq(returned, Len(prefix) + 2, k - 1)
            suffix == Drop(returned, k)
        IN  /\ StartsWith(returned, prefix \o <<"-">>)
            /\ k > Len(prefix) + 1
            /\ digits # <<>>
            /\ \A i \in DOMAIN digits : IsDigit(digits[i])
            /\ Len(suffix) = 6
            /\ \A i \in DOMAIN suffix : suffix[i] \in Base36Digits

\* the location createJob submits for a location the environment reported
ExpectedLocation(reported) ==
    CASE reported = "East US" -> eastus
      [] reported = "westus" -> westus
      [] OTHER -> eastus

\* C28: reading the environment never fails createJob: the create-or-update
\* call is submitted after the read whatever its outcome; the submitted
\* location is "eastus" when the read failed, and otherwise the reported
\* location lower-cased and without whitespace ("East US" gives "eastus"), or
\* "eastus" when that leaves no location.
C28_LocationFallback ==
    /\ [](\A i \in Calls("createOrUpdate") :
             /\ i > 1
             /\ Before(i).op = "environmentGet"
             /\ jobConfig.location = IF Before(i).ok
                                     THEN ExpectedLocation(Before(i).detail)
                                     ELSE eastus)
    /\ [][pc = "createJob" => (pc' = "createSubmit" /\ error' = error)]_vars
    /\ [][pc = "createSubmit" => Calls("createOrUpdate")' # {}]_vars

C28_Witness ==
    /\ pc = "done"
    /\ ~failed
    /\ \E i \in Calls("createOrUpdate") : ~Before(i).ok /\ trace[i].ok
    /\ jobConfig.location = eastus

\* C29: a run issues at most one create-or-update call and at most one start
\* call; when either fails the error run() catches is "Failed to create job: "
\* or "Failed to start job execution: " followed by the provider's message, and
\* the finished run is marked failed with it.
C29_CreateAndStartOnce ==
    /\ Cardinality(Calls("createOrUpdate")) <= 1
    /\ Cardinality(Calls("start")) <= 1
    /\ (\E i \in Calls("createOrUpdate") : ~trace[i].ok) =>
          /\ error.kind = "create"
          /\ error.message = "Failed to create job: provider error"
          /\ Calls("start") = {}
          /\ pc = "done" => (failed /\ failureMessage = error.message)
    /\ (\E i \in Calls("start") : ~trace[i].ok) =>
          /\ error.kind = "start"
          /\ error.message = "Failed to start job execution: provider error"
          /\ Calls("jobExecution") = {}
          /\ pc = "done" => (failed /\ failureMessage = error.message)

C29_Witness ==
    /\ pc = "done"
    /\ failed
    /\ \E i \in Calls("start") : ~trace[i].ok
    /\ Calls("delete") # {}

\* C30: with only-delete-job set no environment read, create, start or status
\* fetch is issued, whatever cron-schedule, manual-execution and dry-run are;
\* with a cron schedule or manual-execution no start is issued, whatever
\* dry-run is.
C30_ModePrecedence ==
    /\ inputs.onlyDeleteJob =>
          Calls("environmentGet") \cup Calls("createOrUpdate") \cup Calls("start")
             \cup Calls("jobExecution") = {}
    /\ (inputs.cronSchedule # "" \/ inputs.manualExecution) =>
          Calls("start") \cup Calls("jobExecution") = {}

C30_Witness ==
    /\ pc = "done"
    /\ inputs.onlyDeleteJob
    /\ inputs.cronSchedule # ""
    /\ inputs.manualExecution
    /\ inputs.dryRun
    /\ Calls("delete") # {}

\* C31: when run() ends through its catch block, the failure message it sets
\* last is the message of the error that was caught, whether the cleanup
\* delete issued in the catch block succeeded or failed; the delete's own
\* error is never the reported reason.
C31_CleanupFailureKeepsReason ==
    (pc = "done" /\ error # NoError) =>
        /\ failed
        /\ Calls("setFailed") = {Len(trace)}
        /\ trace[Len(trace)].arg = error.message
        /\ failureMessage = error.message
        /\ failureMessage # DeleteError.message

C31_Witness ==
    /\ pc = "done"
    /\ error.kind = "start"
    /\ Len(trace) >= 2
    /\ trace[Len(trace) - 1] = Call("delete", jobName, FALSE)
    /\ failureMessage = "Failed to start job execution: " \o ProviderMessage

\* C32: the timeout getInputs yields is a positive integer for every text of
\* the timeout input, and it is 1800 when the input is absent.
C32_TimeoutPositiveInteger ==
    pc = "getInputsTimeoutReturned" =>
        /\ ~returned.nan
        /\ returned.value > 0
        /\ ~argument.defined => returned.value = 1800

\* positions of the history where a call was issued that has not settled yet
InFlight ==
    {i \in DOMAIN trace :
        /\ trace[i].op = "issue"
        /\ \A j \in (i + 1)..Len(trace) : trace[j].op # trace[i].arg}

\* C33: within one run at most one remote operation is in flight at any
\* moment: a call is issued only when every call issued before it has settled,
\* so the entry after an issued call is that call's result, for the
\* environment read, create, start, every status fetch, the log query and delete.
C33_OneCallInFlight ==
    /\ Cardinality(InFlight) <= 1
    /\ \A i \in Calls("issue") :
          /\ trace[i].arg \in RemoteOps
          /\ i < Len(trace) => trace[i + 1].op = trace[i].arg
    /\ \A i \in RemoteCalls : i > 1 /\ trace[i - 1] = Issued(trace[i].op)

C33_Witness ==
    /\ pc = "pollFetch"
    /\ InFlight = {Len(trace)}
    /\ trace[Len(trace)] = Issued("jobExecution")
    /\ Cardinality(Calls("jobExecution")) >= 2
    /\ \E i \in Calls("jobExecution") : ~trace[i].ok

\* C34: a finished standard-mode run that issued a create call issued exactly
\* one delete call, after the create call and for the same job name, whatever
\* the outcomes of create, start, the poll loop and the log query; and no run
\* issues two delete calls.
C34_ExactlyOneDelete ==
    /\ Cardinality(Calls("delete")) <= 1
    /\ (pc = "done" /\ StandardMode /\ Calls("createOrUpdate") # {}) =>
          \E d \in Calls("delete") :
             /\ Calls("delete") = {d}
             /\ \A c \in Calls("createOrUpdate") : c < d /\ trace[c].arg = trace[d].arg
             /\ trace[d].arg = jobName

C34_Witness ==
    /\ pc = "done"
    /\ StandardMode
    /\ finalExecution # NoExecution
    /\ \E q \in Calls("queryWorkspace") : ~trace[q].ok
    /\ \E d \in Calls("delete") : ~trace[d].ok /\ Calls("delete") = {d}

\* C35: whenever the poll loop has returned an execution to run(), the status
\* run() evaluates for the verdict is Succeeded or Failed and is the status
\* value that made the poll loop stop.
C35_VerdictReadsPolledStatus ==
    finalExecution # NoExecution =>
        /\ runStatus(finalExecution) \in {"Succeeded", "Failed"}
        /\ runStatus(finalExecution) = pollStatus(finalExecution)

\* C36: for every positive timeout, with the clock advancing by the poll
\* interval at each sleep, the poll loop is always left again, by returning an
\* execution or by raising the timeout error, also when every status fetch
\* fails or the status stays Running forever.
C36_PollTerminates ==
    (pc \in PollPcs /\ inputs.timeout > 0) ~> (pc \notin PollPcs)

C36_Witness ==
    /\ pc = "catch"
    /\ error.kind = "timeout"
    /\ inputs.timeout = 20
    /\ Cardinality(Calls("jobExecution")) >= 3
    /\ \A i \in Calls("jobExecution") : ~trace[i].ok

\* C37 as stated: for any timeout >= 0 the poll loop has fetched the status at
\* least once when it raises the timeout error, and it issues no status fetch
\* in an iteration that started with the elapsed time above the timeout.
C37_FetchBeforeTimeout ==
    /\ error.kind = "timeout" => Calls("jobExecution") # {}
    /\ pc = "pollFetch" => ~pollTimedOut(now - startTime, inputs.timeout)

\* C37, amended: the timeout is tested at the start of every iteration and
\* nowhere else: no status fetch is issued in an iteration that started with
\* the elapsed time above the timeout, and for a timeout of at least one
\* second the loop has fetched the status at least once when it raises the
\* timeout error; with timeout 0 it raises without any fetch exactly when the
\* clock has moved between entry and the first test.
C37_TimeoutTestedAtIterationStart ==
    /\ pc = "pollFetch" => ~pollTimedOut(now - startTime, inputs.timeout)
    /\ (error.kind = "timeout" /\ inputs.timeout >= 1) => Calls("jobExecution") # {}
    /\ (error.kind = "timeout" /\ Calls("jobExecution") = {}) =>
          inputs.timeout = 0 /\ timeoutAtRaise > 0 /\ timeoutAtRaise <= Jitter
    /\ (error.kind = "timeout" /\ Calls("jobExecution") # {}) =>
          timeoutAtRaise >= pollInterval

C37_Witness ==
    /\ pc = "catch"
    /\ error.kind = "timeout"
    /\ inputs.timeout = 10
    /\ timeoutAtRaise > 2 * pollInterval
    /\ Cardinality(Calls("jobExecution")) = 2
    /\ \E i \in Calls("jobExecution") : trace[i].ok

\* the catch block of a finished run issued its cleanup delete: the entry
\* before the final setFailed is a delete call
CleanupDeleteIssued ==
    /\ Len(trace) >= 2
    /\ trace[Len(trace)].op = "setFailed"
    /\ trace[Len(trace) - 1].op = "delete"

\* C38: a finished run that went through the catch block skipped the cleanup
\* delete exactly when a cron schedule was requested or the client had not
\* been constructed; in particular, with manual-execution set and no cron
\* schedule, a failed create is followed by the cleanup delete of that job.
C38_CleanupSkippedOnlyForCronOrNoClient ==
    (pc = "done" /\ error # NoError) =>
        /\ ~CleanupDeleteIssued = (inputs.cronSchedule # "" \/ ~client)
        /\ ~CleanupDeleteIssued => Calls("delete") = {}
        /\ (inputs.manualExecution /\ inputs.cronSchedule = "" /\ error.kind = "create") =>
              /\ CleanupDeleteIssued
              /\ trace[Len(trace) - 1].arg = jobName
              /\ \A c \in Calls("createOrUpdate") :
                    c < Len(trace) - 1 /\ trace[c].arg = jobName

C38_Witness ==
    /\ pc = "done"
    /\ inputs.manualExecution
    /\ inputs.cronSchedule = ""
    /\ error.kind = "create"
    /\ CleanupDeleteIssued

\* C39: for every input text parseJsonInput either raises the "Failed to
\* parse" error or returns a mapping; a text that is valid JSON but not an
\* object (null, an array, a number, a string) is never returned.
C39_ParseJsonInputReturnsMapping ==
    /\ pc = "parseJsonInputReturned" => returned.type = "object"
    /\ (pc \in {"parseJsonInputReturned", "parseJsonInputThrew"}
          /\ argument.input.defined /\ argument.input.value \in NonObjectTexts) =>
             pc = "parseJsonInputThrew"

====
